---- MODULE Spec2Model ----
(***************************************************************************)
(* State-machine model of the voicebot duplex audio engine:                *)
(*   GeminiLiveService (services/geminiLiveService.ts, src/unnamed/part_002)*)
(*   and the App callbacks that drive it (App.tsx, src/unnamed/part_000).  *)
(* The model follows the first service instance the App creates, from its  *)
(* construction to the end of its resources.                               *)
(*                                                                         *)
(* Units: wall-clock time (Date.now) and the playback clock                *)
(* (outputAudioContext.currentTime) are in milliseconds; RMS values are in *)
(* thousandths (0.01 is 10).                                               *)
(***************************************************************************)
EXTENDS Integers, Sequences, FiniteSets, TLC

\* ---------------------------------------------------------------- constants
SILENCE_THRESHOLD == 10
SILENCE_DURATION_MS == 2500

\* ------------------------------------------------------------------- bounds
\* number of clock advances, number of inbound messages, number of outbound
\* blocks waiting for the session promise
MaxTicks == 2
MaxMsgs == 3
MaxQueued == 2
\* size of the chat: tokens of transcript text in the message list and in
\* the fragments of one inbound message
MaxTokens == 4
\* silence timeouts of a replaced instance, which nothing mutes
MaxFires == 2

\* one clock advance: a block exactly SILENCE_DURATION_MS after another
TickMs == SILENCE_DURATION_MS
\* RMS of a captured block: exactly the threshold (the loudest silence), speech
RmsLevels == {SILENCE_THRESHOLD, 5 * SILENCE_THRESHOLD}
\* duration of a decoded chunk
ChunkDurations == {TickMs, 2 * TickMs}
\* shapes of an inbound LiveServerMessage: turnComplete flag, inline audio
\* (its duration once decoded, 0 for none, and whether decoding succeeds; a
\* payload that does not decode has no duration, TickMs stands for "some"),
\* interrupted flag
Messages ==
    {m \in [turnComplete : BOOLEAN, audio : {0} \cup ChunkDurations,
            decodeOk : BOOLEAN, interrupted : BOOLEAN] :
        /\ m.audio = 0 => m.decodeOk
        /\ ~m.decodeOk => m.audio = TickMs
        /\ m.turnComplete \/ m.audio > 0 \/ m.interrupted}
\* the messages as the connection sees them: a chunk's duration, the outcome
\* of its decode and the interrupted flag touch the playback state only
ControlMessages ==
    {m \in Messages : m.audio \in {0, TickMs} /\ m.decodeOk /\ ~m.interrupted}
\* the messages as the capture side sees them: the turnComplete flag and the
\* presence of a payload (the two remote mute triggers); what handleMessage
\* does with the payload after the decode writes the playback state only, so
\* the payload is one that does not decode
CaptureMessages ==
    {m \in Messages : ~m.interrupted /\ (m.audio > 0 => ~m.decodeOk)}
\* the messages as the playback side sees them: the turnComplete flag touches
\* the Mic Gate only; a chunk of either duration, a chunk that does not
\* decode, an interruption alone, a chunk and an interruption in one message
PlaybackMessages ==
    {m \in Messages :
        /\ ~m.turnComplete
        /\ (m.audio > 0 /\ m.interrupted) => (m.audio = TickMs /\ m.decodeOk)}

\* transcript text, as the tokens cleanTranscriptText and the message list
\* tell apart: a word, white space, a noise marker such as "(noise)"
Tokens == {"w", "sp", "noise"}
\* the text of one transcription: empty, or one or two tokens
Fragments ==
    {<<>>} \cup {<<a>> : a \in Tokens} \cup {<<a, b>> : a, b \in Tokens}
\* the transcriptions of one inbound message: serverContent.inputTranscription
\* and serverContent.outputTranscription, each absent or with a text
Transcriptions ==
    {t \in [present : BOOLEAN, text : Fragments] :
        ~t.present => t.text = <<>>}
TranscriptMessages ==
    {m \in [input : Transcriptions, output : Transcriptions] :
        m.input.present \/ m.output.present}

VARIABLES
    svc,          \* the fields of the GeminiLiveService instance
    app,          \* the App component's state and refs
    net,          \* the remote session: transport state, session promise and
                  \* the reactions registered on it
    connectPc,    \* position of the async connect(): new, awaitMedia, done
    inflight,     \* handleMessage invocations suspended at await decodeAudioData
    now,          \* Date.now()
    currentTime,  \* outputAudioContext.currentTime
    connection,   \* the last state passed to callbacks.onStateChange
    hist,         \* history: what happened since connect / the last unmute
    last,         \* history: the last operation, the state before it, its outputs
    replaced      \* the instance serviceRef.current held before this one

vars == <<svc, app, net, connectPc, inflight, now, currentTime,
          connection, hist, last, replaced>>

\* -------------------------------------------------------------------- Init
\* field initialisers of the class
InitService ==
    [sessionPromise |-> "null",
     inputAudioContext |-> "null",
     outputAudioContext |-> "null",
     mediaStream |-> "null",
     inputSource |-> "null",
     processor |-> "null",
     nextStartTime |-> 0,
     activeSources |-> {},
     isMicMuted |-> FALSE,
     lastSpeechTime |-> 0,
     hasSpokenSinceLastTurn |-> FALSE]

\* useState / useRef initial values of App
InitApp ==
    [mounted |-> TRUE,
     connectionState |-> "DISCONNECTED",
     isMicOn |-> FALSE,
     error |-> "null",
     serviceRef |-> "null",
     messages |-> <<>>]

\* queued: the blocks whose sendRealtimeInput waits for the session promise,
\* in the order their then() was registered
InitNet ==
    [session |-> "none", promise |-> "none", closeOnResolve |-> FALSE,
     delivered |-> 0, queued |-> <<>>]

\* what one operation emitted: state notifications, error notifications,
\* turn-complete notifications, volume updates; for a captured block its RMS
\* and whether it was handed to the session
\* started: the sources handed to start(); stopped: the sources stop() was
\* called on; flushed: an interruption signal was handled
\* msg: the message handleMessage ran for; decodeError: its catch block ran
\* ('Error decoding audio' was logged)
\* handed: the blocks session.sendRealtimeInput was called with, in call
\* order, each with its outcome (a failure is logged by catch(console.error));
\* waiting: the blocks that waited for the session promise when it resolved
\* spoke: hist.spoke when the captured block was delivered
\* transcripts: the onTranscript calls, each with the message list before and
\* after it
NoMsg ==
    [turnComplete |-> FALSE, audio |-> 0, decodeOk |-> TRUE,
     interrupted |-> FALSE]

NoOut ==
    [states |-> <<>>, errors |-> 0, turnCompletes |-> 0, volumes |-> <<>>,
     rms |-> 0, sent |-> FALSE, started |-> <<>>, stopped |-> {},
     flushed |-> FALSE, msg |-> NoMsg, decodeError |-> FALSE,
     handed |-> <<>>, waiting |-> <<>>, spoke |-> FALSE,
     transcripts |-> <<>>]

\* silenceFires: turn-completes delivered by the silence detector since
\*   connect or the last unmuteMic
\* cancelled: disconnect() was called while connect() was in flight
\* resets: the cursor was reset (catch-up, interruption) since the last start()
\* flushed: the highest message whose interruption signal has been handled
\* prev: the last start() call: its message, start time and duration (id 0:
\*   none yet)
\* run: the start() calls since the last cursor reset: the start time of the
\*   first, the sum of their durations, their number
NoSource == [id |-> 0, when |-> 0, dur |-> 0]

NoRun == [t0 |-> 0, sum |-> 0, n |-> 0]

\* spoke: a block with RMS above the threshold went through the silence
\*   detector since the last connect, muteMic or unmuteMic
InitHist ==
    [silenceFires |-> 0, cancelled |-> FALSE, resets |-> TRUE, flushed |-> 0,
     prev |-> NoSource, run |-> NoRun, spoke |-> FALSE]

\* no instance has been replaced yet
NoReplaced ==
    [exists |-> FALSE, svc |-> InitService, net |-> InitNet, hist |-> InitHist]

Init ==
    /\ replaced = NoReplaced
    /\ svc = InitService
    /\ app = InitApp
    /\ net = InitNet
    /\ connectPc = "new"
    /\ inflight = {}
    /\ now = 0
    /\ currentTime = 0
    /\ connection = "DISCONNECTED"
    /\ hist = InitHist
    /\ last = [op |-> "init", pre |-> InitService, out |-> NoOut]

\* the state the operators below transform: svc, net and hist are those of
\* the instance whose code runs (this), other is the other instance, and
\* isCurrent tells whether this is the instance serviceRef.current holds
World ==
    [svc |-> svc, app |-> app, net |-> net,
     connection |-> connection, hist |-> hist, out |-> NoOut,
     other |-> replaced, isCurrent |-> TRUE]

\* the same state seen from the other instance
Swap(w) ==
    [w EXCEPT !.svc = w.other.svc, !.net = w.other.net, !.hist = w.other.hist,
              !.other.svc = w.svc, !.other.net = w.net, !.other.hist = w.hist,
              !.isCurrent = ~@]

\* ----------------------------------------------------------- App callbacks
\* a state update of an unmounted component is dropped
SetApp(w, a) == IF w.app.mounted THEN [w EXCEPT !.app = a] ELSE w

\* onStateChange
OnStateChange(w, s) ==
    LET a == [w.app EXCEPT !.connectionState = s,
                            !.isMicOn = IF s = "CONNECTED" THEN TRUE ELSE @]
        w1 == SetApp(w, a)
    IN  [w1 EXCEPT !.connection = s, !.out.states = Append(@, s)]

\* onError: setError
OnError(w) ==
    LET w1 == SetApp(w, [w.app EXCEPT !.error = "set"])
    IN  [w1 EXCEPT !.out.errors = @ + 1]

\* mutant: the volume is notified twice
OnVolumeUpdateTwice(w, v) == [w EXCEPT !.out.volumes = Append(Append(@, v), v)]

\* onVolumeUpdate (App's volume state only feeds the visualizer and is not
\* kept)
OnVolumeUpdate(w, v) == [w EXCEPT !.out.volumes = Append(@, v)]

\* cleanTranscriptText: the noise markers are removed, runs of white space
\* become one space; nothing is trimmed
CleanTranscriptText(text) ==
    LET kept == SelectSeq(text, LAMBDA t : t # "noise")
        keep[i \in 0..Len(kept)] ==
            IF i = 0 THEN <<>>
            ELSE IF kept[i] = "sp" /\ i > 1 /\ kept[i - 1] = "sp"
                 THEN keep[i - 1]
                 ELSE Append(keep[i - 1], kept[i])
    IN  keep[Len(kept)]

\* !text.trim()
IsBlank(text) == \A i \in DOMAIN text : text[i] = "sp"

\* text.trimStart()
RECURSIVE TrimStart(_)
TrimStart(text) ==
    IF text # <<>> /\ text[1] = "sp" THEN TrimStart(Tail(text)) ELSE text

\* mutant: a fragment always opens a new message
UpdateMessagesNoMerge(prev, cleanText, isUser) ==
    LET role == IF isUser THEN "user" ELSE "model"
    IN  IF IsBlank(cleanText) THEN prev
        ELSE Append(prev, [role |-> role, text |-> TrimStart(cleanText)])

\* the updater passed to setMessages
UpdateMessages(prev, cleanText, isUser) ==
    LET role == IF isUser THEN "user" ELSE "model"
        n == Len(prev)
    IN  IF n > 0 /\ prev[n].role = role
        THEN [prev EXCEPT ![n].text = @ \o cleanText]
        ELSE IF IsBlank(cleanText) THEN prev
             ELSE Append(prev, [role |-> role, text |-> TrimStart(cleanText)])

\* onTranscript
OnTranscript(w, text, isUser, isFinal) ==
    LET cleanText == CleanTranscriptText(text)
        w1 == IF IsBlank(cleanText) /\ ~isFinal THEN w
              ELSE SetApp(w, [w.app EXCEPT !.messages =
                                  UpdateMessages(@, cleanText, isUser)])
    IN  [w1 EXCEPT !.out.transcripts =
                       Append(@, [text |-> text, isUser |-> isUser,
                                  before |-> w.app.messages,
                                  after |-> w1.app.messages])]

\* App.clearChat
ClearChat(w) == SetApp(w, [w.app EXCEPT !.messages = <<>>])

\* ------------------------------------------------------ GeminiLiveService
MuteMic(w) ==
    [w EXCEPT !.svc.isMicMuted = TRUE, !.svc.hasSpokenSinceLastTurn = FALSE,
              !.hist.spoke = FALSE]

\* mutant: unmuteMic leaves lastSpeechTime where it was
UnmuteMicKeepsTime(w) ==
    [w EXCEPT !.svc.isMicMuted = FALSE,
              !.svc.hasSpokenSinceLastTurn = FALSE,
              !.hist.silenceFires = 0,
              !.hist.spoke = FALSE]

UnmuteMic(w) ==
    [w EXCEPT !.svc.isMicMuted = FALSE,
              !.svc.lastSpeechTime = now,
              !.svc.hasSpokenSinceLastTurn = FALSE,
              !.hist.silenceFires = 0,
              !.hist.spoke = FALSE]

\* serviceRef.current.muteMic(), from a callback of either instance
MuteCurrent(w) == IF w.isCurrent THEN MuteMic(w) ELSE Swap(MuteMic(Swap(w)))

\* onTurnComplete: App.handleTurnComplete
HandleTurnComplete(w) ==
    LET w0 == [w EXCEPT !.out.turnCompletes = @ + 1]
    IN  IF w0.app.serviceRef # "null"
        THEN LET w1 == MuteCurrent(w0)
             IN  SetApp(w1, [w1.app EXCEPT !.isMicOn = FALSE])
        ELSE w0

\* mutant: the sources are stopped but the set is not cleared
StopAllKeepsSet(w) ==
    [w EXCEPT !.out.stopped = @ \cup {src.id : src \in w.svc.activeSources}]

\* activeSources.forEach(source => source.stop()); activeSources.clear()
StopAll(w) ==
    [w EXCEPT !.out.stopped = @ \cup {src.id : src \in w.svc.activeSources},
              !.svc.activeSources = {}]

Disconnect(w) ==
    LET s == w.svc
        n == w.net
        \* sessionPromise.then(session => session.close())
        n1 == IF s.sessionPromise = "set"
              THEN IF n.promise = "resolved"
                   THEN [n EXCEPT !.session = IF @ = "open" THEN "closing" ELSE @]
                   ELSE IF n.promise = "pending"
                        THEN [n EXCEPT !.closeOnResolve = TRUE]
                        ELSE n
              ELSE n
        s1 == [s EXCEPT
                 !.sessionPromise = "null",
                 !.processor = IF @ # "null" THEN "off" ELSE @,
                 !.inputSource = IF @ # "null" THEN "disconnected" ELSE @,
                 !.mediaStream = IF @ # "null" THEN "stopped" ELSE @,
                 !.inputAudioContext = IF @ # "null" THEN "closed" ELSE @,
                 !.outputAudioContext = IF @ # "null" THEN "closed" ELSE @]
        w1 == StopAll([w EXCEPT !.svc = s1, !.net = n1])
    IN  OnStateChange(w1, "DISCONNECTED")

\* the part of connect() before its await
ConnectBegin(w) ==
    LET w1 == OnStateChange(w, "CONNECTING")
    IN  [w1 EXCEPT !.svc.nextStartTime = 0,
                   !.svc.isMicMuted = FALSE,
                   !.svc.lastSpeechTime = now,
                   !.svc.hasSpokenSinceLastTurn = FALSE,
                   !.svc.inputAudioContext = "running",
                   !.svc.outputAudioContext = "running",
                   !.hist.silenceFires = 0,
                   !.hist.spoke = FALSE]

\* getUserMedia resolved: the rest of the try block
ConnectMediaGranted(w) ==
    [w EXCEPT !.svc.mediaStream = "live",
              !.svc.sessionPromise = "set",
              !.net.session = "connecting",
              !.net.promise = "pending"]

\* getUserMedia rejected: the catch block
ConnectCatch(w) ==
    Disconnect(OnStateChange(OnError(w), "ERROR"))

\* createMediaStreamSource on a closed context throws on some platforms
\* (throws = TRUE) and then nothing is registered
StartAudioStreaming(w, throws) ==
    IF w.svc.inputAudioContext = "null" \/ w.svc.mediaStream = "null"
    THEN w
    ELSE IF w.svc.inputAudioContext = "closed" /\ throws
         THEN w
         ELSE [w EXCEPT !.svc.inputSource = "connected",
                        !.svc.processor = "active"]

HandleOpen(w, throws) ==
    StartAudioStreaming(OnStateChange(w, "CONNECTED"), throws)

HandleError(w) == Disconnect(OnError(w))

HandleClose(w) == OnStateChange(w, "DISCONNECTED")

\* mutant: the timeout compares with >=
SilenceTimedOutInclusive(lastSpeechTime) ==
    now - lastSpeechTime >= SILENCE_DURATION_MS

\* now - this.lastSpeechTime > SILENCE_DURATION_MS
SilenceTimedOut(lastSpeechTime) == now - lastSpeechTime > SILENCE_DURATION_MS

\* mutant: the detector fires without speech in the turn
SilenceFiresUnspoken(s) == SilenceTimedOut(s.lastSpeechTime)

\* this.hasSpokenSinceLastTurn && (now - this.lastSpeechTime >
\* SILENCE_DURATION_MS)
SilenceFires(s) ==
    s.hasSpokenSinceLastTurn /\ SilenceTimedOut(s.lastSpeechTime)

\* mutant: the threshold is ten times too high
IsSpeechWrongScale(rms) == rms > 10 * SILENCE_THRESHOLD

\* rms > SILENCE_THRESHOLD
IsSpeech(rms) == rms > SILENCE_THRESHOLD

\* mutant: a failed transmission is reported on the error channel
HandOverFatal(w, b, ok) ==
    LET w1 == [w EXCEPT !.out.handed =
                            Append(@, [at |-> b.at, rms |-> b.rms,
                                       ok |-> ok /\ w.net.session = "open"])]
    IN  IF ok /\ w.net.session = "open" THEN w1 ELSE OnError(w1)

\* session.sendRealtimeInput({ media: pcmBlob }) for block b; it fails when the
\* transport is no longer open, or for a reason of its own (ok = FALSE); the
\* failure goes to catch(console.error)
HandOver(w, b, ok) ==
    [w EXCEPT !.out.handed =
                  Append(@, [at |-> b.at, rms |-> b.rms,
                             ok |-> ok /\ w.net.session = "open"])]

\* if (this.sessionPromise) sessionPromise.then(session =>
\* session.sendRealtimeInput(...)).catch(console.error): the reaction runs
\* right after the callback when the promise has resolved, waits in
\* registration order while it is pending, never runs when it has rejected
SendBlock(w, rms, ok) ==
    LET b == [at |-> now, rms |-> rms]
        w1 == [w EXCEPT !.out.sent = (w.svc.sessionPromise = "set")]
    IN  IF w.svc.sessionPromise # "set" THEN w1
        ELSE IF w.net.promise = "resolved" THEN HandOver(w1, b, ok)
        ELSE IF w.net.promise = "pending"
             THEN [w1 EXCEPT !.net.queued = Append(@, b)]
             ELSE w1

\* mutant: the waiting blocks are handed over last first
FlushQueuedReversed(w, oks) ==
    LET q == w.net.queued
        n == Len(q)
        hand[i \in 0..n] ==
            IF i = 0 THEN [w EXCEPT !.net.queued = <<>>]
            ELSE HandOver(hand[i - 1], q[n + 1 - i], oks[i])
    IN  hand[n]

\* the reactions of the waiting blocks run, in the order they were registered
FlushQueued(w, oks) ==
    LET q == w.net.queued
        hand[i \in 0..Len(q)] ==
            IF i = 0 THEN [w EXCEPT !.net.queued = <<>>]
            ELSE HandOver(hand[i - 1], q[i], oks[i])
    IN  hand[Len(q)]

\* mutant: the block's RMS is reported while muted
MutedVolumeRaw(rms) == rms

\* the volume reported for a block while the mic is muted
MutedVolume(rms) == 0

\* processor.onaudioprocess
OnAudioProcess(w, rms, ok) ==
    LET w0 == [w EXCEPT !.out.rms = rms, !.out.spoke = w.hist.spoke]
    IN  IF w0.svc.isMicMuted
        THEN OnVolumeUpdate(w0, MutedVolume(rms))
        ELSE LET w1 == OnVolumeUpdate(w0, rms)
             IN  IF IsSpeech(rms)
                 THEN SendBlock([w1 EXCEPT !.svc.lastSpeechTime = now,
                                           !.svc.hasSpokenSinceLastTurn = TRUE,
                                           !.hist.spoke = TRUE],
                                rms, ok)
                 ELSE IF SilenceFires(w1.svc)
                      THEN HandleTurnComplete(
                               [w1 EXCEPT !.hist.silenceFires = @ + 1])
                      ELSE SendBlock(w1, rms, ok)

\* mutant: the interruption leaves the cursor where it was
InterruptKeepsCursor(w, id) ==
    [StopAll(w) EXCEPT
              !.out.flushed = TRUE,
              !.hist.resets = TRUE,
              !.hist.flushed = IF id > @ THEN id ELSE @]

\* handleMessage, part 3: interruptions
Interrupt(w, id) ==
    [StopAll(w) EXCEPT
              !.svc.nextStartTime = 0,
              !.out.flushed = TRUE,
              !.hist.resets = TRUE,
              !.hist.flushed = IF id > @ THEN id ELSE @]

HandleInterrupted(w, id, m) == IF m.interrupted THEN Interrupt(w, id) ELSE w

\* the cursor catch-up before the decode
CatchUp(w) ==
    IF w.svc.nextStartTime < currentTime
    THEN [w EXCEPT !.svc.nextStartTime = currentTime, !.hist.resets = TRUE]
    ELSE w

\* handleMessage suspends at await decodeAudioData
Suspends(w, m) == m.audio > 0 /\ w.svc.outputAudioContext # "null"

\* handleMessage up to await decodeAudioData, or to its end when it does not
\* get there
HandleMessageBegin(w, id, m) ==
    LET w0 == [w EXCEPT !.out.msg = m]
        w1 == IF m.turnComplete THEN HandleTurnComplete(w0) ELSE w0
        w2 == IF m.audio > 0 /\ ~w1.svc.isMicMuted
              THEN HandleTurnComplete(w1) ELSE w1
    IN  IF Suspends(w2, m) THEN CatchUp(w2) ELSE HandleInterrupted(w2, id, m)

\* mutant: the cursor is advanced from the playback clock
AdvanceCursorFromClock(t, dur) == currentTime + dur

\* this.nextStartTime += audioBuffer.duration
AdvanceCursor(t, dur) == t + dur

\* source.start(this.nextStartTime); activeSources.add; nextStartTime += duration
\* a start time already past starts the source at once
Schedule(w, id, dur) ==
    LET t == w.svc.nextStartTime
        src == [id |-> id, when |-> t,
                begin |-> IF t < currentTime THEN currentTime ELSE t,
                dur |-> dur]
        run == IF w.hist.resets THEN [NoRun EXCEPT !.t0 = t] ELSE w.hist.run
    IN  [w EXCEPT !.svc.activeSources = @ \cup {src},
                  !.svc.nextStartTime = AdvanceCursor(@, dur),
                  !.out.started =
                      Append(@, [src |-> src, after |-> w.hist.prev,
                                 run |-> run, contiguous |-> ~w.hist.resets]),
                  !.hist.prev = [id |-> id, when |-> t, dur |-> dur],
                  !.hist.run = [run EXCEPT !.sum = @ + dur, !.n = @ + 1],
                  !.hist.resets = FALSE]

\* mutant: the catch block resets the cursor
HandleMessageResumeResets(w, h, throws) ==
    LET ok == h.m.decodeOk /\ ~(w.svc.outputAudioContext = "closed" /\ throws)
        w0 == [w EXCEPT !.out.msg = h.m, !.out.decodeError = ~ok]
        w1 == IF ok THEN Schedule(w0, h.id, h.m.audio)
                    ELSE [w0 EXCEPT !.svc.nextStartTime = 0]
    IN  HandleInterrupted(w1, h.id, h.m)

\* handleMessage from the end of the decode: the decode failed (caught), or
\* creating the source on a closed context threw (caught), or the chunk is
\* scheduled; then the interruption part
HandleMessageResume(w, h, throws) ==
    LET ok == h.m.decodeOk /\ ~(w.svc.outputAudioContext = "closed" /\ throws)
        w0 == [w EXCEPT !.out.msg = h.m, !.out.decodeError = ~ok]
        w1 == IF ok THEN Schedule(w0, h.id, h.m.audio) ELSE w0
    IN  HandleInterrupted(w1, h.id, h.m)

\* ---------------------------------------------------------------- actions
Commit(w, op) ==
    /\ svc' = w.svc
    /\ app' = w.app
    /\ net' = w.net
    /\ connection' = w.connection
    /\ hist' = w.hist
    /\ replaced' = w.other
    /\ last' = [op |-> op, pre |-> svc, out |-> w.out]

\* App.toggleConnection, first branch: a new service, then service.connect()
\* up to its await
ToggleConnectionStart ==
    /\ app.mounted
    /\ app.connectionState \in {"DISCONNECTED", "ERROR"}
    /\ connectPc = "new"
    /\ LET w0 == [World EXCEPT !.app.error = "null", !.app.serviceRef = "svc"]
       IN  Commit(ConnectBegin(w0), "connect")
    /\ connectPc' = "awaitMedia"
    /\ UNCHANGED <<inflight, now, currentTime>>

\* App.toggleConnection, first branch, when serviceRef.current holds an
\* instance already: the new service takes its place and the replaced one is
\* left as it is. One replacement is followed; the replaced instance's
\* connect() has returned and none of its handleMessage calls is suspended.
ToggleConnectionRestart ==
    /\ app.mounted
    /\ app.connectionState \in {"DISCONNECTED", "ERROR"}
    /\ connectPc = "done"
    /\ inflight = {}
    /\ ~replaced.exists
    /\ LET w0 == [World EXCEPT
                   !.app.error = "null", !.app.serviceRef = "svc",
                   !.other = [exists |-> TRUE, svc |-> svc, net |-> net,
                              hist |-> hist],
                   !.svc = InitService, !.net = InitNet, !.hist = InitHist]
       IN  Commit(ConnectBegin(w0), "connect")
    /\ connectPc' = "awaitMedia"
    /\ UNCHANGED <<inflight, now, currentTime>>

\* App.toggleConnection, second branch (the End Session button)
ToggleConnectionEnd ==
    /\ app.mounted
    /\ app.connectionState = "CONNECTED"
    /\ LET w1 == IF app.serviceRef # "null" THEN Disconnect(World) ELSE World
           a == [w1.app EXCEPT !.connectionState = "DISCONNECTED",
                                !.isMicOn = FALSE]
       IN  Commit(SetApp(w1, a), "disconnect")
    /\ UNCHANGED <<connectPc, inflight, now, currentTime>>

\* the cleanup of App's mount effect: serviceRef.current?.disconnect()
Unmount ==
    /\ app.mounted
    /\ LET w0 == [World EXCEPT
                   !.app.mounted = FALSE,
                   !.hist.cancelled =
                       @ \/ (app.serviceRef # "null"
                             /\ (connectPc = "awaitMedia"
                                 \/ net.session = "connecting"))]
       IN  Commit(IF app.serviceRef # "null" THEN Disconnect(w0) ELSE w0,
                  "disconnect")
    /\ UNCHANGED <<connectPc, inflight, now, currentTime>>

\* App.handleMicToggle
HandleMicToggle ==
    /\ app.mounted
    /\ app.serviceRef # "null"
    /\ app.connectionState = "CONNECTED"
    /\ IF app.isMicOn
       THEN Commit([MuteMic(World) EXCEPT !.app.isMicOn = FALSE], "muteMic")
       ELSE Commit([UnmuteMic(World) EXCEPT !.app.isMicOn = TRUE], "unmuteMic")
    /\ UNCHANGED <<connectPc, inflight, now, currentTime>>

\* connect() resumes: getUserMedia resolved
MediaGranted ==
    /\ connectPc = "awaitMedia"
    /\ Commit(ConnectMediaGranted(World), "mediaGranted")
    /\ connectPc' = "done"
    /\ UNCHANGED <<inflight, now, currentTime>>

\* connect() resumes: getUserMedia rejected
MediaDenied ==
    /\ connectPc = "awaitMedia"
    /\ Commit(ConnectCatch(World), "mediaDenied")
    /\ connectPc' = "done"
    /\ UNCHANGED <<inflight, now, currentTime>>

\* the transport opened: onopen, then the session promise resolves and the
\* close a disconnect() left waiting on it runs
SessionOpened ==
    /\ net.session = "connecting"
    /\ \E throws \in BOOLEAN :
         LET w1 == HandleOpen(World, throws)
         IN  Commit([w1 EXCEPT
                       !.net.promise = "resolved",
                       !.net.session =
                           IF w1.net.closeOnResolve THEN "closing" ELSE "open"],
                    "handleOpen")
    /\ UNCHANGED <<connectPc, inflight, now, currentTime>>

\* the transport opened and onopen ran, the session promise resolves later
SessionOpenedEarly ==
    /\ net.session = "connecting"
    /\ \E throws \in BOOLEAN :
         Commit([HandleOpen(World, throws) EXCEPT !.net.session = "open"],
                "handleOpen")
    /\ UNCHANGED <<connectPc, inflight, now, currentTime>>

\* the session promise resolves after onopen: its reactions run in the order
\* they were registered, the sends of the waiting blocks and then the close a
\* disconnect() registered
SessionResolved ==
    /\ net.promise = "pending"
    /\ net.session # "connecting"
    /\ \E oks \in [1..Len(net.queued) -> BOOLEAN] :
         LET w0 == [World EXCEPT !.out.waiting = net.queued]
             w1 == FlushQueued(w0, oks)
         IN  Commit([w1 EXCEPT
                       !.net.promise = "resolved",
                       !.net.session =
                           IF w1.net.closeOnResolve /\ @ = "open"
                           THEN "closing" ELSE @],
                    "sessionResolved")
    /\ UNCHANGED <<connectPc, inflight, now, currentTime>>

\* ai.live.connect() rejected: nothing awaits the promise, no callback runs
SessionRejected ==
    /\ net.session = "connecting"
    /\ Commit([World EXCEPT !.net.promise = "rejected",
                            !.net.session = "closed"], "sessionRejected")
    /\ UNCHANGED <<connectPc, inflight, now, currentTime>>

\* the transport reports an error on an opening or open session; the failed
\* transport then closes
TransportError ==
    /\ net.session \in {"connecting", "open"}
    /\ Commit([HandleError(World) EXCEPT !.net.session = "closing"],
              "handleError")
    /\ UNCHANGED <<connectPc, inflight, now, currentTime>>

\* the transport closed (remote close, or the end of a close in progress)
TransportClose ==
    /\ net.session \in {"open", "closing"}
    /\ Commit([HandleClose(World) EXCEPT !.net.session = "closed"],
              "handleClose")
    /\ UNCHANGED <<connectPc, inflight, now, currentTime>>

\* one captured block is delivered to onaudioprocess; Oks: the outcomes of
\* its transmission over an open transport
CaptureFrom(Oks) ==
    /\ svc.processor = "active"
    /\ svc.inputAudioContext = "running"
    /\ Len(net.queued) < MaxQueued
    /\ \E rms \in RmsLevels, ok \in Oks :
         Commit(OnAudioProcess(World, rms, ok), "audioprocess")
    /\ UNCHANGED <<connectPc, inflight, now, currentTime>>

AudioProcess == CaptureFrom({TRUE})

\* one captured block is delivered to the onaudioprocess of the replaced
\* instance, whose capture was left running
ReplacedAudioProcess ==
    /\ replaced.exists
    /\ replaced.svc.processor = "active"
    /\ replaced.svc.inputAudioContext = "running"
    /\ Len(replaced.net.queued) < MaxQueued
    /\ replaced.hist.silenceFires < MaxFires
    /\ \E rms \in RmsLevels :
         Commit(Swap(OnAudioProcess(Swap(World), rms, TRUE)),
                "replaced.audioprocess")
    /\ UNCHANGED <<connectPc, inflight, now, currentTime>>

\* the transport of the replaced instance closed: its onclose
ReplacedTransportClose ==
    /\ replaced.exists
    /\ replaced.net.session \in {"open", "closing"}
    /\ Commit(Swap([HandleClose(Swap(World)) EXCEPT !.net.session = "closed"]),
              "replaced.handleClose")
    /\ UNCHANGED <<connectPc, inflight, now, currentTime>>

AudioProcessLossy == CaptureFrom(BOOLEAN)

\* the transport delivers one message, of the shapes in S, to handleMessage
MessageFrom(S) ==
    /\ net.session = "open"
    /\ net.delivered < MaxMsgs
    /\ \E m \in S :
         LET id == net.delivered + 1
             w0 == [World EXCEPT !.net.delivered = id]
         IN  /\ Commit(HandleMessageBegin(w0, id, m), "handleMessage")
             /\ inflight' = IF Suspends(HandleMessageBegin(w0, id, m), m)
                            THEN inflight \cup {[id |-> id, m |-> m]}
                            ELSE inflight
    /\ UNCHANGED <<connectPc, now, currentTime>>

Message == MessageFrom(ControlMessages)

PlaybackMessage == MessageFrom(PlaybackMessages)

CaptureMessage == MessageFrom(CaptureMessages)

\* the number of tokens in a message list, in the transcriptions of a message
RECURSIVE ListSize(_)
ListSize(list) ==
    IF list = <<>> THEN 0 ELSE Len(list[1].text) + ListSize(Tail(list))

MessageSize(m) == Len(m.input.text) + Len(m.output.text)

\* handleMessage, part 1: transcriptions, for a message that carries nothing
\* else: the input transcription is passed on as the user's, then the output
\* transcription as the model's, both as partial
HandleTranscriptions(w, m) ==
    LET w1 == IF m.input.present
              THEN OnTranscript(w, m.input.text, TRUE, FALSE) ELSE w
    IN  IF m.output.present
        THEN OnTranscript(w1, m.output.text, FALSE, FALSE) ELSE w1

\* the transport delivers a message with transcriptions only
TranscriptMessage ==
    /\ net.session = "open"
    /\ \E m \in TranscriptMessages :
         /\ ListSize(app.messages) + MessageSize(m) <= MaxTokens
         /\ Commit(HandleTranscriptions(World, m), "handleMessage")
    /\ UNCHANGED <<connectPc, inflight, now, currentTime>>

\* the clear-chat button
ClearChatClick ==
    /\ app.mounted
    /\ Commit(ClearChat(World), "clearChat")
    /\ UNCHANGED <<connectPc, inflight, now, currentTime>>

\* a suspended handleMessage resumes after its decode
DecodeDone ==
    /\ \E h \in inflight, throws \in BOOLEAN :
         /\ Commit(HandleMessageResume(World, h, throws), "decodeDone")
         /\ inflight' = inflight \ {h}
    /\ UNCHANGED <<connectPc, now, currentTime>>

\* the 'ended' listener of a source that played to its end
SourceEnded ==
    /\ svc.outputAudioContext = "running"
    /\ \E src \in svc.activeSources :
         /\ currentTime >= src.begin + src.dur
         /\ Commit([World EXCEPT !.svc.activeSources = @ \ {src}], "ended")
    /\ UNCHANGED <<connectPc, inflight, now, currentTime>>

\* time passes while the audio contexts run: Date.now() and the playback clock
\* (no code that can still run reads either clock once they are closed)
Tick ==
    /\ svc.outputAudioContext = "running"
    /\ now < MaxTicks * TickMs
    /\ now' = now + TickMs
    /\ currentTime' = currentTime + TickMs
    /\ last' = [op |-> "tick", pre |-> svc, out |-> NoOut]
    /\ UNCHANGED <<svc, app, net, connectPc, inflight, connection, hist,
                   replaced>>

\* the whole system
Next ==
    \/ ToggleConnectionStart
    \/ ToggleConnectionEnd
    \/ Unmount
    \/ HandleMicToggle
    \/ MediaGranted
    \/ MediaDenied
    \/ SessionOpened
    \/ SessionOpenedEarly
    \/ SessionResolved
    \/ SessionRejected
    \/ TransportError
    \/ TransportClose
    \/ AudioProcess
    \/ AudioProcessLossy
    \/ PlaybackMessage
    \/ Message
    \/ CaptureMessage
    \/ TranscriptMessage
    \/ ClearChatClick
    \/ ToggleConnectionRestart
    \/ ReplacedAudioProcess
    \/ ReplacedTransportClose
    \/ DecodeDone
    \/ SourceEnded
    \/ Tick

Spec == Init /\ [][Next]_vars

\* Captured blocks and mic toggles write the Mic Gate (and App.isMicOn) only,
\* and neither the connection nor the playback side reads it; the playback
\* state is written by messages and read by nothing else. The specifications
\* below are Spec with the actions and message shapes a side does not depend
\* on left out.

\* the connection: every way a connect() and a session can go
NextConnection ==
    \/ ToggleConnectionStart
    \/ ToggleConnectionEnd
    \/ Unmount
    \/ MediaGranted
    \/ MediaDenied
    \/ SessionOpened
    \/ SessionRejected
    \/ TransportError
    \/ TransportClose
    \/ Message
    \/ DecodeDone
    \/ SourceEnded
    \/ Tick

SpecConnection == Init /\ [][NextConnection]_vars

\* the capture side: blocks, mic toggles, the remote mute triggers
NextCapture ==
    \/ ToggleConnectionStart
    \/ ToggleConnectionEnd
    \/ HandleMicToggle
    \/ MediaGranted
    \/ SessionOpened
    \/ TransportClose
    \/ AudioProcess
    \/ CaptureMessage
    \/ DecodeDone
    \/ Tick

SpecCapture == Init /\ [][NextCapture]_vars

\* the playback side: every message shape it distinguishes
NextPlayback ==
    \/ ToggleConnectionStart
    \/ ToggleConnectionEnd
    \/ MediaGranted
    \/ SessionOpened
    \/ PlaybackMessage
    \/ DecodeDone
    \/ SourceEnded
    \/ Tick

SpecPlayback == Init /\ [][NextPlayback]_vars

\* the outbound side: blocks captured while the session promise is pending or
\* resolved, transmissions that fail
NextSend ==
    \/ ToggleConnectionStart
    \/ ToggleConnectionEnd
    \/ HandleMicToggle
    \/ MediaGranted
    \/ SessionOpened
    \/ SessionOpenedEarly
    \/ SessionResolved
    \/ TransportClose
    \/ AudioProcessLossy
    \/ Tick

SpecSend == Init /\ [][NextSend]_vars

\* the chat: transcriptions and chat clears over one session
NextChat ==
    \/ ToggleConnectionStart
    \/ ToggleConnectionEnd
    \/ MediaGranted
    \/ SessionOpened
    \/ TranscriptMessage
    \/ ClearChatClick

SpecChat == Init /\ [][NextChat]_vars

\* two instances: a session is started again after the first one ended, while
\* callbacks of the first instance can still run
NextInstances ==
    \/ ToggleConnectionStart
    \/ ToggleConnectionRestart
    \/ ToggleConnectionEnd
    \/ HandleMicToggle
    \/ MediaGranted
    \/ SessionOpened
    \/ TransportClose
    \/ ReplacedTransportClose
    \/ AudioProcess
    \/ ReplacedAudioProcess
    \/ Tick

SpecInstances == Init /\ [][NextInstances]_vars

\* ------------------------------------------------------------------ claims
\* a captured block was processed with the gate unmuted, at or below the
\* threshold, after speech in this turn
SilentBlockAfterSpeech ==
    /\ last.op = "audioprocess"
    /\ ~last.pre.isMicMuted
    /\ last.out.rms <= SILENCE_THRESHOLD
    /\ last.pre.hasSpokenSinceLastTurn

SpeechBlock == last.op = "audioprocess" /\ last.out.rms > SILENCE_THRESHOLD

\* C2 (as amended): a block with RMS above the threshold leaves the mute flag
\* unchanged; with the gate unmuted it leaves hasSpokenSinceLastTurn true (and
\* lastSpeechTime at now); with the gate muted the block is not processed and
\* hasSpokenSinceLastTurn stays false.
C2_SpeechBlock ==
    SpeechBlock =>
        /\ svc.isMicMuted = last.pre.isMicMuted
        /\ ~last.pre.isMicMuted =>
               (svc.hasSpokenSinceLastTurn /\ svc.lastSpeechTime = now)
        /\ last.pre.isMicMuted =>
               (~svc.hasSpokenSinceLastTurn
                /\ svc.lastSpeechTime = last.pre.lastSpeechTime)

C2_Witness ==
    SpeechBlock /\ ~last.pre.isMicMuted /\ ~last.pre.hasSpokenSinceLastTurn
                /\ svc.hasSpokenSinceLastTurn

\* C2 as claimed: whatever the state of the gate, hasSpokenSinceLastTurn is
\* true after a block with RMS above the threshold
C2_AsClaimed ==
    SpeechBlock =>
        (svc.isMicMuted = last.pre.isMicMuted /\ svc.hasSpokenSinceLastTurn)

\* C3: a block delivered while the gate is muted reports volume exactly 0 and
\* is not handed to the session, and the gate stays muted; muteMic leaves the
\* gate muted and only unmuteMic ends a mute.
C3_MutedBlocks ==
    /\ (last.op = "audioprocess" /\ last.pre.isMicMuted)
           => (last.out.volumes = <<0>> /\ ~last.out.sent /\ svc.isMicMuted)
    /\ last.op = "muteMic" => svc.isMicMuted
    /\ (last.pre.isMicMuted /\ ~svc.isMicMuted) => last.op = "unmuteMic"

C3_Witness ==
    /\ last.op = "audioprocess"
    /\ last.pre.isMicMuted
    /\ last.out.rms > SILENCE_THRESHOLD
    /\ last.out.volumes = <<0>>

C5_InterruptFlushes ==
    last.out.flushed =>
        /\ svc.activeSources = {}
        /\ svc.nextStartTime = 0
        /\ \A src \in last.pre.activeSources : src.id \in last.out.stopped
        /\ \A i \in DOMAIN last.out.started :
               last.out.started[i].src.id \in last.out.stopped

C5_Witness ==
    /\ last.out.flushed
    /\ Cardinality(last.pre.activeSources) >= 2
    /\ svc.activeSources = {}

\* C6 as claimed: no chunk of a message delivered before an interruption
\* signal is in the Active Playback Set once that signal has been handled.
C6_NoLeftoverAfterInterrupt ==
    \A src \in svc.activeSources : src.id > hist.flushed

\* the state disconnect() is to leave: the session closed, closing, or its
\* close waiting on the session promise; capture stopped, the device
\* released, nothing playing, Disconnected notified last
SessionClosedOrClosing(n) ==
    n.session \in {"none", "closing", "closed"} \/ n.closeOnResolve

TornDown(w) ==
    /\ w.svc.sessionPromise = "null"
    /\ SessionClosedOrClosing(w.net)
    /\ w.svc.processor # "active"
    /\ w.svc.inputSource # "connected"
    /\ w.svc.mediaStream # "live"
    /\ w.svc.inputAudioContext # "running"
    /\ w.svc.outputAudioContext # "running"
    /\ w.svc.activeSources = {}
    /\ w.connection = "DISCONNECTED"

SameState(a, b) ==
    a.svc = b.svc /\ a.net = b.net /\ a.app = b.app /\ a.connection = b.connection

\* C7: from every reachable state disconnect() leaves the service torn down
\* with Disconnected notified last, and a second disconnect() right after it
\* changes nothing.
C7_DisconnectIdempotent ==
    LET d == Disconnect(World)
    IN  /\ TornDown(d)
        /\ SameState(Disconnect(d), d)
        /\ (last.op = "disconnect" /\ app.serviceRef # "null") => TornDown(World)

\* disconnect() ran on a service an earlier disconnect() had torn down
C7_Witness ==
    /\ last.op = "disconnect"
    /\ last.pre.processor = "off"
    /\ last.pre.mediaStream = "stopped"
    /\ svc = last.pre
    /\ connection = "DISCONNECTED"

\* C8 as claimed: after a disconnect() during an in-flight connect() no capture
\* device is acquired, no session is open, no capture processing is
\* registered, and when everything has settled Connection is Disconnected.
C8_CancelledConnectStaysDown ==
    hist.cancelled =>
        /\ svc.mediaStream # "live"
        /\ net.session # "open"
        /\ svc.processor # "active"
        /\ (connectPc = "done" /\ net.session \in {"none", "closed"})
               => connection = "DISCONNECTED"

\* C9 as claimed: a failed connect() (device denied, session not opened)
\* reports an error, releases what it had acquired and leaves Connection
\* Errored.
C9_ConnectFailureErrored ==
    last.op \in {"mediaDenied", "sessionRejected"} =>
        /\ last.out.errors >= 1
        /\ svc.mediaStream # "live"
        /\ svc.processor # "active"
        /\ connection = "ERROR"

\* C10 as claimed: a transport error reports an error, tears capture, session
\* and playback down and leaves Connection Errored.
C10_TransportErrorErrored ==
    last.op = "handleError" =>
        /\ last.out.errors >= 1
        /\ svc.processor # "active"
        /\ svc.mediaStream # "live"
        /\ svc.activeSources = {}
        /\ SessionClosedOrClosing(net)
        /\ connection = "ERROR"

\* C11 as claimed: when the transport closes the session, Connection becomes
\* Disconnected and the service is torn down: capture processing stopped, the
\* capture device released, the Active Playback Set empty.
C11_TransportCloseTearsDown ==
    last.op = "handleClose" =>
        /\ connection = "DISCONNECTED"
        /\ svc.processor # "active"
        /\ svc.mediaStream # "live"
        /\ svc.activeSources = {}

\* C12 as claimed: a capture processing callback is registered on the acquired
\* device exactly while Connection is Connected and the Mic Gate is unmuted.
C12_CaptureSessionIff ==
    (svc.processor = "active" /\ svc.mediaStream = "live")
        <=> (connection = "CONNECTED" /\ ~svc.isMicMuted)

\* C13 as claimed, for an inline audio payload and the turn-complete signal
\* delivered right after it, which ends the same remote turn: the
\* turn-complete callback does not fire for both.
C13_OncePerRemoteTurn ==
    [][~(/\ last.op = "handleMessage"
         /\ last.out.msg.audio > 0
         /\ ~last.out.msg.turnComplete
         /\ last.out.turnCompletes >= 1
         /\ last'.op = "handleMessage"
         /\ last'.out.msg.turnComplete
         /\ last'.out.turnCompletes >= 1)]_vars

\* handleMessage ran up to its decode for a payload that will not decode
UndecodableBegins ==
    /\ last.op = "handleMessage"
    /\ last.out.msg.audio > 0
    /\ ~last.out.msg.decodeOk

\* handleMessage resumed into its catch block, in a message with no
\* interruption signal
DecodeFailed ==
    /\ last.op = "decodeDone"
    /\ last.out.decodeError
    /\ ~last.out.msg.interrupted

SendFailed ==
    \E i \in DOMAIN last.out.handed : ~last.out.handed[i].ok

\* C15: a failed transmission of a block notifies no state and no error and
\* tears nothing down (callback, device, session promise, contexts and playing
\* sources are as before); and every block processed with the gate unmuted
\* that does not end the turn, a block after a failure included, is passed to
\* the session promise: handed to the session, or waiting for the promise.
C15_SendFailureHarmless ==
    /\ SendFailed =>
           /\ last.out.states = <<>>
           /\ last.out.errors = 0
           /\ svc.processor = last.pre.processor
           /\ svc.inputSource = last.pre.inputSource
           /\ svc.mediaStream = last.pre.mediaStream
           /\ svc.sessionPromise = last.pre.sessionPromise
           /\ svc.inputAudioContext = last.pre.inputAudioContext
           /\ svc.outputAudioContext = last.pre.outputAudioContext
           /\ svc.activeSources = last.pre.activeSources
    /\ (/\ last.op = "audioprocess"
        /\ ~last.pre.isMicMuted
        /\ last.out.turnCompletes = 0
        /\ last.pre.sessionPromise = "set")
           => /\ last.out.sent
              /\ Len(last.out.handed) = 1 \/ net.queued # <<>>

\* a transmission failed on an open transport, and the capture goes on
C15_Witness ==
    /\ last.op = "audioprocess"
    /\ SendFailed
    /\ net.session = "open"
    /\ connection = "CONNECTED"
    /\ svc.processor = "active"
    /\ svc.sessionPromise = "set"

\* a handed block without its outcome
BlockOf(h) == [at |-> h.at, rms |-> h.rms]

\* C19: blocks reach the session in capture order and the capture callback
\* never waits: a block captured with the promise resolved is handed over by
\* its own callback with no earlier block still waiting; a block captured with
\* the promise pending is put last in the queue and the callback returns; the
\* queue is in capture order; and when the promise resolves the waiting blocks
\* are handed over in queue order.
C19_SendOrder ==
    /\ (last.op = "audioprocess" /\ last.out.handed # <<>>)
           => /\ Len(last.out.handed) = 1
              /\ BlockOf(last.out.handed[1]) = [at |-> now, rms |-> last.out.rms]
              /\ net.queued = <<>>
    /\ (last.op = "audioprocess" /\ last.out.sent /\ net.promise = "pending")
           => /\ net.queued # <<>>
              /\ net.queued[Len(net.queued)] = [at |-> now, rms |-> last.out.rms]
              /\ Len(last.out.volumes) = 1
    /\ \A i, j \in DOMAIN net.queued : i < j => net.queued[i].at <= net.queued[j].at
    /\ net.queued # <<>> => net.promise = "pending"
    /\ last.op = "sessionResolved"
           => /\ Len(last.out.handed) = Len(last.out.waiting)
              /\ \A i \in DOMAIN last.out.handed :
                     BlockOf(last.out.handed[i]) = last.out.waiting[i]

\* two different blocks waited for the promise and were handed over
C19_Witness ==
    /\ last.op = "sessionResolved"
    /\ Len(last.out.waiting) = 2
    /\ last.out.waiting[1] # last.out.waiting[2]
    /\ Len(last.out.handed) = 2

\* a notification of state t right after a notification of state s
FollowsMachine(s, t) ==
    /\ t = "CONNECTED" => s = "CONNECTING"
    /\ s = "ERROR" => t = "DISCONNECTED"

\* C16 as claimed: in the sequence of states the service notifies, Connected
\* comes only directly after Connecting, and Errored is followed only by
\* Disconnected.
C16_NotificationsFollowMachine ==
    [][LET seq == <<connection>> \o last'.out.states
       IN  \A i \in 1..(Len(seq) - 1) : FollowsMachine(seq[i], seq[i + 1])]_vars

\* the playback intervals of two sources overlap
Overlap(a, b) ==
    /\ a.begin < b.begin + b.dur
    /\ b.begin < a.begin + a.dur

\* C17 as claimed: with no interruption handled and the output context
\* running, no two sources of the Active Playback Set play at the same time.
C17_NoOverlap ==
    (hist.flushed = 0 /\ svc.outputAudioContext = "running")
        => \A a, b \in svc.activeSources : a # b => ~Overlap(a, b)

\* C18 as claimed: chunks are given their start times in delivery order: every
\* start() call is for a message delivered after the message of the start()
\* call before it.
C18_StartsInDeliveryOrder ==
    \A i \in DOMAIN last.out.started :
        last.out.started[i].src.id > last.out.started[i].after.id

\* C20: a captured block delivered to the callback produces exactly one volume
\* update, 0 while the gate is muted and the block's RMS otherwise, the block
\* that triggers the silence timeout included; the value is never negative.
C20_OneVolumePerBlock ==
    last.op = "audioprocess" =>
        /\ Len(last.out.volumes) = 1
        /\ last.out.volumes[1] >= 0
        /\ last.out.volumes[1] =
               (IF last.pre.isMicMuted THEN 0 ELSE last.out.rms)

\* the block that triggered the silence timeout reported its volume once
C20_Witness ==
    /\ last.op = "audioprocess"
    /\ last.out.turnCompletes = 1
    /\ hist.silenceFires = 1
    /\ last.out.volumes = <<last.out.rms>>

\* C21: muteMic() leaves the gate muted and hasSpokenSinceLastTurn false and
\* changes no other field of the service (lastSpeechTime, the cursor and the
\* Active Playback Set among them); unmuteMic() leaves the gate unmuted,
\* hasSpokenSinceLastTurn false and lastSpeechTime at the current time and
\* changes no other field; neither notifies a connection state.
C21_MuteUnmuteFrame ==
    /\ last.op = "muteMic" =>
           /\ svc = [last.pre EXCEPT !.isMicMuted = TRUE,
                                     !.hasSpokenSinceLastTurn = FALSE]
           /\ last.out.states = <<>>
    /\ last.op = "unmuteMic" =>
           /\ svc = [last.pre EXCEPT !.isMicMuted = FALSE,
                                     !.hasSpokenSinceLastTurn = FALSE,
                                     !.lastSpeechTime = now]
           /\ last.out.states = <<>>

\* unmuteMic() ran on a muted gate whose lastSpeechTime was in the past
C21_Witness ==
    /\ last.op = "unmuteMic"
    /\ last.pre.isMicMuted
    /\ last.pre.lastSpeechTime < now
    /\ svc.lastSpeechTime = now

\* C22: the silence detector delivers turn-complete only on a block delivered
\* after a block with RMS above the threshold went through the detector since
\* the last connect, muteMic or unmuteMic; a silent block with no such block
\* before it, however long after the connect or unmute, delivers no
\* turn-complete and leaves the gate as it was.
C22_NoTimeoutWithoutSpeech ==
    last.op = "audioprocess" =>
        /\ last.out.turnCompletes > 0 => last.out.spoke
        /\ ~last.out.spoke =>
               /\ last.out.turnCompletes = 0
               /\ svc.isMicMuted = last.pre.isMicMuted

\* a silent block went through the detector more than SILENCE_DURATION_MS
\* after the connect or unmute, with no speech before it
C22_Witness ==
    /\ last.op = "audioprocess"
    /\ ~last.pre.isMicMuted
    /\ ~last.out.spoke
    /\ last.out.rms <= SILENCE_THRESHOLD
    /\ now - last.pre.lastSpeechTime > SILENCE_DURATION_MS
    /\ last.out.turnCompletes = 0
    /\ ~svc.isMicMuted

\* C23 as claimed: no operation that starts with the Mic Gate muted delivers a
\* turn-complete notification.
C23_NoTurnCompleteWhileMuted ==
    last.pre.isMicMuted => last.out.turnCompletes = 0


\* ------------------------------------------------------------------ C26
\* the speaker role of a transcript notification
RoleOf(e) == IF e.isUser THEN "user" ELSE "model"

\* the notification found a last message from its own speaker
SameSpeaker(e) ==
    Len(e.before) > 0 /\ e.before[Len(e.before)].role = RoleOf(e)

\* the list with the cleaned fragment appended to its last message
Appended(e) ==
    [e.before EXCEPT ![Len(e.before)].text = @ \o CleanTranscriptText(e.text)]

\* the list with a new message holding the cleaned fragment, without its
\* leading white space
Extended(e) ==
    Append(e.before, [role |-> RoleOf(e),
                      text |-> TrimStart(CleanTranscriptText(e.text))])

NoAdjacentSameRole(list) ==
    \A i \in 1..(Len(list) - 1) : list[i].role # list[i + 1].role

\* C26: after any sequence of transcript notifications and chat clears the
\* message list never holds two adjacent messages of the same role; a fragment
\* that is blank once cleaned leaves the list as it is, whoever spoke; a
\* non-blank fragment from the speaker of the last message is appended,
\* cleaned, to that message; a non-blank fragment from the other speaker, or
\* arriving at an empty list, opens a new message
C26_MergedBySpeaker ==
    /\ NoAdjacentSameRole(app.messages)
    /\ \A i \in DOMAIN last.out.transcripts :
         LET e == last.out.transcripts[i]
         IN  IF IsBlank(CleanTranscriptText(e.text)) THEN e.after = e.before
             ELSE IF SameSpeaker(e) THEN e.after = Appended(e)
             ELSE e.after = Extended(e)

\* a non-blank fragment was appended to the last message of a list of two,
\* and the list is what the interface shows
C26_Witness ==
    /\ last.op = "handleMessage"
    /\ \E i \in DOMAIN last.out.transcripts :
         LET e == last.out.transcripts[i]
         IN  /\ Len(e.before) = 2 /\ SameSpeaker(e)
             /\ ~IsBlank(CleanTranscriptText(e.text))
             /\ e.after = Appended(e) /\ e.after # e.before
             /\ app.messages = e.after

\* C26 as claimed: no two adjacent messages of the same role, every fragment
\* from the speaker of the last message is appended to that message, and a new
\* message is opened only for a non-blank fragment that is not from the
\* speaker of the last message
C26_AsClaimed ==
    /\ NoAdjacentSameRole(app.messages)
    /\ \A i \in DOMAIN last.out.transcripts :
         LET e == last.out.transcripts[i]
         IN  /\ SameSpeaker(e) => e.after = Appended(e)
             /\ Len(e.after) > Len(e.before) =>
                    /\ ~IsBlank(CleanTranscriptText(e.text))
                    /\ ~SameSpeaker(e)


\* ------------------------------------------------------------------ C24
\* C24 as claimed: while the interface shows Connected, its mic flag is the
\* negation of the mute flag of the instance serviceRef.current holds
C24_MicFlagMirrorsGate ==
    (app.mounted /\ app.serviceRef # "null"
         /\ app.connectionState = "CONNECTED")
        => app.isMicOn = ~svc.isMicMuted

\* ------------------------------------------------------------------ C25
\* an instance holds the capture device or has its capture callback registered
HoldsCapture(s) == s.mediaStream = "live" \/ s.processor = "active"

\* C25 as claimed: while the interface shows Disconnected or Error no instance
\* it created holds the capture device or a registered capture callback, and
\* a late close of a replaced instance does not change the connection state
\* shown for the current one
C25_UiStateReflectsCurrent ==
    /\ [](app.mounted /\ app.connectionState \in {"DISCONNECTED", "ERROR"}
            => ~HoldsCapture(svc)
               /\ (replaced.exists => ~HoldsCapture(replaced.svc)))
    /\ [][last'.op = "replaced.handleClose"
            => app'.connectionState = app.connectionState]_vars

====
